---- MODULE Spec2Model ----
(***************************************************************************)
(* F1 LED circuit simulation (src/src/main.rs): the chunk decoder          *)
(* (process_chunk), the spatial mapper (generate_run_race_data), the       *)
(* PlotApp playback state (update_race, update_led_states, reset,          *)
(* update_with_data, visualize_data), the eframe frame handler             *)
(* (App::update) and the ingestion tasks spawned by load_data.             *)
(*                                                                         *)
(* Time is counted in units of 500 ms: Instant values, chrono dates and    *)
(* race_time are integers in that unit, so that elapsed * speed and        *)
(* (date - date0).num_milliseconds() / 1000.0 compare as in the source.    *)
(*                                                                         *)
(* A byte stream is a sequence of tokens.  A token stands for a run of     *)
(* ASCII bytes that holds no '[', ']', '{', '}' or ',' of the JSON         *)
(* structure: the five structural bytes are tokens of their own, and a     *)
(* field such as "x":567,"y":3195 is one token.  String::from_utf8_lossy   *)
(* maps ASCII bytes to themselves, so buffer_str has the tokens of buffer. *)
(***************************************************************************)
EXTENDS Integers, Sequences, FiniteSets, TLC

VARIABLES
    now,      \* Instant::now(), the wall clock
    app,      \* the PlotApp that eframe owns and whose update() is the frame
    loader,   \* the task spawned by START: app_clone.load_data()
    tasks,    \* the per-driver tasks load_data spawns, each with its clone
    channel,  \* number of messages in the bounded(1) completion channel
    dec,      \* a stream under decoding by process_chunk, call after call
    mapper    \* a call of generate_run_race_data: its arguments and its result

vars == <<now, app, loader, tasks, channel, dec, mapper>>

----------------------------------------------------------------------------
(* Bounds of the model *)

\* number of records of the longest array given to the decoder
MaxRecords == 10
\* the raw and fixed points given to the mapper have x in 0..MaxGrid
MaxGrid == 2
\* number of LedCoordinates of the longest fixed set given to the mapper
MaxFixed == 3
\* number of records of the longest array whose fragment boundaries are recorded
MaxCutRecords == 3
\* number of objects of the longest array that holds an invalid object
MaxInvalidRecords == 3
\* number of records of the longest array that holds a record at (0, 0)
MaxSensorRecords == 3
\* last instant of the wall clock
MaxNow == 2
\* longest timeline a PlotApp is given through update_with_data
MaxTimeline == 2
\* largest setting of the speed slider that is tried (the slider allows 1..=5)
MaxSpeed == 2

----------------------------------------------------------------------------
(* Data: LedCoordinate, LocationData, RunRace, DriverInfo *)

\* three consecutive LedCoordinates of read_coordinates(), in its order (the
\* ones whose keys scaled by 1_000_000 stay within TLC's integers)
read_coordinates ==
    << [x_led |-> 1257, y_led |-> 884],
       [x_led |-> 1333, y_led |-> 454],
       [x_led |-> 1409, y_led |-> 25] >>

\* PlotApp.coordinates, as main() passes it to PlotApp::new
coordinates == read_coordinates

\* the drivers whose streams load_data fetches (the first two of driver_numbers)
driver_numbers == <<1, 4>>

Drivers == {driver_numbers[i] : i \in 1..Len(driver_numbers)}

\* egui::Color32 values
WHITE == <<255, 255, 255>>

\* PlotApp.driver_info, as main() builds it (entries of the modelled drivers)
driver_info ==
    << [number |-> 1, color |-> <<30, 65, 255>>],
       [number |-> 4, color |-> <<255, 135, 0>>] >>

\* LocationData values (x, y, date, driver_number; z and the keys are unused)
LocationData(x, y, date, driver_number) ==
    [x |-> x, y |-> y, date |-> date, driver_number |-> driver_number]

----------------------------------------------------------------------------
(* The wire format: a JSON array of flat objects, as tokens *)

Tok(c, a, b) == [c |-> c, a |-> a, b |-> b]
LBracket == Tok("[", 0, 0)
RBracket == Tok("]", 0, 0)
LBrace   == Tok("{", 0, 0)
RBrace   == Tok("}", 0, 0)
Comma    == Tok(",", 0, 0)
\* the bytes "x":<x>,"y":<y>,"z":<z>  (key: value pairs of the position)
FieldXY(x, y) == Tok("xy", x, y)
\* the bytes "date":"<date>","driver_number":<n>,"session_key":..,"meeting_key":..
FieldDD(date, driver_number) == Tok("dd", date, driver_number)

\* the marker "},{" that process_chunk searches for
Marker == <<RBrace, Comma, LBrace>>

\* one LocationData as a JSON object
ObjectBytes(r) ==
    <<LBrace, FieldXY(r.x, r.y), Comma, FieldDD(r.date, r.driver_number), RBrace>>

RECURSIVE JoinObjects(_)
JoinObjects(rs) ==
    IF rs = <<>> THEN <<>>
    ELSE IF Len(rs) = 1 THEN ObjectBytes(rs[1])
    ELSE ObjectBytes(rs[1]) \o <<Comma>> \o JoinObjects(Tail(rs))

\* a well-formed JSON array of records, compact as the API sends it
ArrayBytes(rs) == <<LBracket>> \o JoinObjects(rs) \o <<RBracket>>

\* the bytes "date":<number>,"driver_number":..: a date of the wrong type
FieldWrongType(date, driver_number) == Tok("date: number", date, driver_number)

\* a complete JSON object that is no LocationData: the date and the fields
\* after it are missing, or the date is a number
InvalidObjectBytes(r, kind) ==
    IF kind = "missing field"
    THEN <<LBrace, FieldXY(r.x, r.y), RBrace>>
    ELSE <<LBrace, FieldXY(r.x, r.y), Comma, FieldWrongType(r.date, r.driver_number),
           RBrace>>

\* the array of the records rs in which the object at index bad is invalid
RECURSIVE JoinWithInvalid(_, _, _, _)
JoinWithInvalid(rs, k, bad, kind) ==
    IF k > Len(rs) THEN <<>>
    ELSE (IF k = bad THEN InvalidObjectBytes(rs[k], kind) ELSE ObjectBytes(rs[k]))
             \o (IF k < Len(rs) THEN <<Comma>> ELSE <<>>)
             \o JoinWithInvalid(rs, k + 1, bad, kind)

ArrayBytesWithInvalid(rs, bad, kind) ==
    <<LBracket>> \o JoinWithInvalid(rs, 1, bad, kind) \o <<RBracket>>

\* serde_json::from_str::<LocationData> / from_slice::<LocationData>:
\* Ok only for exactly one complete object that has every required field once
\* (in either order); anything else, Err.  The derived visitor also accepts a
\* JSON array of the bare field values, which no token sequence here spells.
from_str(s) ==
    IF /\ Len(s) = 5
       /\ s[1] = LBrace /\ s[3] = Comma /\ s[5] = RBrace
       /\ {s[2].c, s[4].c} = {"xy", "dd"}
    THEN LET xy == IF s[2].c = "xy" THEN s[2] ELSE s[4]
             dd == IF s[2].c = "dd" THEN s[2] ELSE s[4]
         IN [ok |-> TRUE, val |-> LocationData(xy.a, xy.b, dd.a, dd.b)]
    ELSE [ok |-> FALSE, val |-> LocationData(0, 0, 0, 0)]

----------------------------------------------------------------------------
(* generate_run_race_data: the nearest LedCoordinate of each record *)

\* the square of the distance the closure computes; sqrt is monotone, so
\* comparing squares orders the candidates as partial_cmp orders the roots
Dist2(data, coord) ==
    (data.x - coord.x_led) * (data.x - coord.x_led)
        + (data.y - coord.y_led) * (data.y - coord.y_led)

\* Iterator::min_by is a reduce: the candidate replaces the element held so
\* far only when the comparison of the two says Greater
RECURSIVE min_by(_, _, _, _)
min_by(data, coords, held, i) ==
    IF i > Len(coords) THEN held
    ELSE min_by(data, coords,
                IF Dist2(data, coords[held]) > Dist2(data, coords[i]) THEN i ELSE held,
                i + 1)

\* a reduce that lets the candidate replace the element held also on Equal
RECURSIVE max_by_style(_, _, _, _)
max_by_style(data, coords, held, i) ==
    IF i > Len(coords) THEN held
    ELSE max_by_style(data, coords,
                IF Dist2(data, coords[held]) >= Dist2(data, coords[i]) THEN i ELSE held,
                i + 1)

\* the mapper as it would be if the last of equally near coordinates won
NearestIndex_last(data, coords) == max_by_style(data, coords, 1, 2)

\* the index of the pair that coordinates.iter().map(..).min_by(..) returns
NearestIndex(data, coords) == min_by(data, coords, 1, 2)

RunRace(date, driver_number, x_led, y_led) ==
    [date |-> date, driver_number |-> driver_number, x_led |-> x_led, y_led |-> y_led]

generate_run_race_data(raw_data, coords) ==
    [k \in 1..Len(raw_data) |->
        LET nearest_coord == coords[NearestIndex(raw_data[k], coords)]
        IN RunRace(raw_data[k].date, raw_data[k].driver_number,
                   nearest_coord.x_led, nearest_coord.y_led)]

----------------------------------------------------------------------------
(* process_chunk *)

\* the pending-size threshold and per-call row cap of load_data (500 in the
\* source, where a record is about 125 bytes; here a record is 5 tokens and
\* the value is scaled so that, as in the source, the retained part of a
\* well-formed stream stays below it)
max_rows_per_driver == 8

Min(a, b) == IF a <= b THEN a ELSE b

\* s[from..to) with Rust's 0-based, end-exclusive indices
Slice(s, from, to) == SubSeq(s, from + 1, to)

\* str::find("},{") on s[start..]: offset of the first match, or -1 (None)
FindMarker(s, start) ==
    LET hits == {i \in start..(Len(s) - 3) : Slice(s, i, i + 3) = Marker}
    IN IF hits = {} THEN -1
       ELSE (CHOOSE i \in hits : \A j \in hits : i <= j) - start

RECURSIVE trim_start_matches(_, _)
trim_start_matches(s, t) ==
    IF s # <<>> /\ Head(s) = t THEN trim_start_matches(Tail(s), t) ELSE s

RECURSIVE trim_end_matches(_, _)
trim_end_matches(s, t) ==
    IF s # <<>> /\ s[Len(s)] = t
    THEN trim_end_matches(SubSeq(s, 1, Len(s) - 1), t) ELSE s

\* the slice handed to the parser for the marker found at start_pos + end_pos
JsonSlice(buffer_str, start_pos, end_pos) ==
    LET raw     == Slice(buffer_str, start_pos, start_pos + end_pos + 1)
        trimmed == trim_end_matches(trim_start_matches(raw, LBracket), RBracket)
    IN IF trimmed = <<>> \/ Head(trimmed) # LBrace
       THEN IF start_pos > 0
            THEN Slice(buffer_str, start_pos - 1, start_pos + end_pos + 1)
            ELSE <<LBrace>> \o trimmed
       ELSE trimmed

\* the loop as it would be if it returned after the first record of a call
ScanMarkers_single(buffer_str, start_pos, rows_processed, run_race_data, coords, max_rows) ==
    LET end_pos == FindMarker(buffer_str, start_pos)
    IN IF end_pos = -1
       THEN [start_pos |-> start_pos, run_race_data |-> run_race_data]
       ELSE LET parsed == from_str(JsonSlice(buffer_str, start_pos, end_pos))
            IN IF parsed.ok
               THEN [start_pos |-> start_pos + end_pos + 3,
                     run_race_data |-> run_race_data
                         \o generate_run_race_data(<<parsed.val>>, coords)]
               ELSE [start_pos |-> start_pos, run_race_data |-> run_race_data]

\* the loop as it would be if a slice that fails to parse were skipped and
\* the scan went on behind its marker
RECURSIVE ScanMarkers_skip(_, _, _, _, _, _)
ScanMarkers_skip(buffer_str, start_pos, rows_processed, run_race_data, coords, max_rows) ==
    LET end_pos == FindMarker(buffer_str, start_pos)
    IN IF end_pos = -1
       THEN [start_pos |-> start_pos, run_race_data |-> run_race_data]
       ELSE LET parsed == from_str(JsonSlice(buffer_str, start_pos, end_pos))
                next   == start_pos + end_pos + 3
            IN IF parsed.ok
               THEN LET new_run_race_data ==
                            generate_run_race_data(<<parsed.val>>, coords)
                        rows == rows_processed + Len(new_run_race_data)
                        data == run_race_data \o new_run_race_data
                    IN IF rows >= max_rows
                       THEN [start_pos |-> next, run_race_data |-> data]
                       ELSE ScanMarkers_skip(buffer_str, next, rows, data, coords, max_rows)
               ELSE ScanMarkers_skip(buffer_str, next, rows_processed, run_race_data,
                                     coords, max_rows)

\* the while-let loop over the markers: the final start_pos and the rows
RECURSIVE ScanMarkers(_, _, _, _, _, _)
ScanMarkers(buffer_str, start_pos, rows_processed, run_race_data, coords, max_rows) ==
    LET end_pos == FindMarker(buffer_str, start_pos)
    IN IF end_pos = -1
       THEN [start_pos |-> start_pos, run_race_data |-> run_race_data]
       ELSE LET parsed == from_str(JsonSlice(buffer_str, start_pos, end_pos))
            IN IF parsed.ok
               THEN LET new_run_race_data ==
                            generate_run_race_data(<<parsed.val>>, coords)
                        rows == rows_processed + Len(new_run_race_data)
                        data == run_race_data \o new_run_race_data
                        next == start_pos + end_pos + 3
                    IN IF rows >= max_rows
                       THEN [start_pos |-> next, run_race_data |-> data]
                       ELSE ScanMarkers(buffer_str, next, rows, data, coords, max_rows)
               ELSE [start_pos |-> start_pos, run_race_data |-> run_race_data]

\* process_chunk as it would be without the cut of the buffer at start_pos
process_chunk_keeps_buffer(chunk, buffer, coords, max_rows) ==
    LET buffer_str == buffer \o chunk
        scanned    == ScanMarkers(buffer_str, 0, 0, <<>>, coords, max_rows)
    IN [run_race_data |-> scanned.run_race_data, buffer |-> buffer_str]

\* process_chunk(chunk, &mut buffer, coordinates, max_rows): the rows it
\* returns and the buffer it leaves
process_chunk(chunk, buffer, coords, max_rows) ==
    LET buffer_str == buffer \o chunk
        scanned    == ScanMarkers(buffer_str, 0, 0, <<>>, coords, max_rows)
        retained   == Slice(buffer_str, scanned.start_pos, Len(buffer_str))
        trailing   == from_str(retained)
    IN IF trailing.ok
       THEN [run_race_data |-> scanned.run_race_data
                                 \o generate_run_race_data(<<trailing.val>>, coords),
             buffer |-> <<>>]
       ELSE [run_race_data |-> scanned.run_race_data, buffer |-> retained]

----------------------------------------------------------------------------
(* PlotApp *)

\* an empty HashMap
EmptyMap == [k \in {} |-> 0]

\* HashMap::insert
Insert(map, k, v) == (k :> v) @@ map

\* PlotApp::new(coordinates, driver_info) at instant t; coordinates and
\* driver_info never change and are the definitions above
PlotApp_new(t) ==
    [ run_race_data        |-> <<>>,
      start_time           |-> t,
      race_time            |-> 0,
      race_started         |-> FALSE,
      data_loading_started |-> FALSE,
      data_loaded          |-> FALSE,
      current_index        |-> 0,
      led_states           |-> EmptyMap,
      last_positions       |-> EmptyMap,
      speed                |-> 1 ]

\* reset as it would be if it cleared data_loading_started as well
reset_clears_loading(self, t) ==
    [self EXCEPT !.start_time = t,
                 !.race_time = 0,
                 !.race_started = FALSE,
                 !.data_loading_started = FALSE,
                 !.current_index = 0,
                 !.led_states = EmptyMap,
                 !.last_positions = EmptyMap]

\* reset as it would be without self.last_positions.clear()
reset_keeps_positions(self, t) ==
    [self EXCEPT !.start_time = t,
                 !.race_time = 0,
                 !.race_started = FALSE,
                 !.current_index = 0,
                 !.led_states = EmptyMap]

\* PlotApp::reset at instant t
reset(self, t) ==
    [self EXCEPT !.start_time = t,
                 !.race_time = 0,
                 !.race_started = FALSE,
                 !.current_index = 0,
                 !.led_states = EmptyMap,
                 !.last_positions = EmptyMap]

\* PlotApp::scale_f64 (the values are whole numbers, the cast truncates nothing)
scale_f64(value, scale) == value * scale

\* the key of update_led_states for one RunRace
coord_key(run_data) ==
    <<scale_f64(run_data.x_led, 1000000), scale_f64(run_data.y_led, 1000000)>>

\* driver_info.iter().find(number == driver_number).map_or(WHITE, color)
ColorOf(driver_number) ==
    LET found == {i \in 1..Len(driver_info) : driver_info[i].number = driver_number}
    IN IF found = {} THEN WHITE
       ELSE driver_info[CHOOSE i \in found : \A j \in found : i <= j].color

\* the first loop of update_led_states: insert the position of every event of
\* the prefix, in order, into last_positions
RECURSIVE InsertPositions(_, _)
InsertPositions(last_positions, events) ==
    IF events = <<>> THEN last_positions
    ELSE InsertPositions(
             Insert(last_positions, Head(events).driver_number, coord_key(Head(events))),
             Tail(events))

\* the second loop: for the entries of last_positions in the order the
\* HashMap iterates them, insert position -> color into led_states
RECURSIVE InsertColors(_, _, _)
InsertColors(led_states, last_positions, order) ==
    IF order = <<>> THEN led_states
    ELSE IF Head(order) \in DOMAIN last_positions
         THEN InsertColors(
                  Insert(led_states, last_positions[Head(order)], ColorOf(Head(order))),
                  last_positions, Tail(order))
         ELSE InsertColors(led_states, last_positions, Tail(order))

\* update_led_states as it would be without self.led_states.clear()
update_led_states_accumulate(self, order) ==
    LET last_positions ==
            InsertPositions(self.last_positions,
                            SubSeq(self.run_race_data, 1, self.current_index))
    IN [self EXCEPT !.last_positions = last_positions,
                    !.led_states = InsertColors(self.led_states, last_positions, order)]

\* PlotApp::update_led_states; order is the order in which the HashMap
\* last_positions yields its keys, which std's RandomState leaves open
update_led_states(self, order) ==
    LET last_positions ==
            InsertPositions(self.last_positions,
                            SubSeq(self.run_race_data, 1, self.current_index))
    IN [self EXCEPT !.last_positions = last_positions,
                    !.led_states = InsertColors(EmptyMap, last_positions, order)]

\* the key of sort_by_key in update_with_data: Reverse(d.date)
KeyLess(a, b) == a.date > b.date

\* slice::sort_by_key is stable: an element goes behind every element whose
\* key is not greater than its own
RECURSIVE StableInsert(_, _)
StableInsert(sorted, e) ==
    IF sorted = <<>> THEN <<e>>
    ELSE IF KeyLess(e, Head(sorted)) THEN <<e>> \o sorted
         ELSE <<Head(sorted)>> \o StableInsert(Tail(sorted), e)

RECURSIVE sort_by_key(_)
sort_by_key(s) ==
    IF s = <<>> THEN <<>>
    ELSE StableInsert(sort_by_key(SubSeq(s, 1, Len(s) - 1)), s[Len(s)])

\* update_with_data as a reader would see it between extend and sort
update_with_data_unsorted(self, data) ==
    [self EXCEPT !.run_race_data = self.run_race_data \o data]

\* update_with_data as it would be if it rewound the cursor after the sort
update_with_data_rewind(self, data) ==
    [self EXCEPT !.run_race_data = sort_by_key(self.run_race_data \o data),
                 !.current_index = 0]

\* PlotApp::update_with_data
update_with_data(self, data) ==
    [self EXCEPT !.run_race_data = sort_by_key(self.run_race_data \o data)]

\* PlotApp::visualize_data
visualize_data(self, run_race_data, order) ==
    update_led_states(update_with_data(self, run_race_data), order)

\* the comparison as it would be with < for <=
Due_strict(race_data_time, race_time) == race_data_time < race_time

\* the comparison of update_race: race_data_time <= self.race_time
Due(race_data_time, race_time) == race_data_time <= race_time

\* the while loop of update_race from next_index on
RECURSIVE AdvanceIndex(_, _, _)
AdvanceIndex(run_race_data, next_index, race_time) ==
    IF /\ next_index < Len(run_race_data)
       /\ Due(run_race_data[next_index + 1].date - run_race_data[1].date, race_time)
    THEN AdvanceIndex(run_race_data, next_index + 1, race_time)
    ELSE next_index

\* update_race as it would be without the test of self.race_started
update_race_unguarded(self, t, order) ==
    LET race_time == (t - self.start_time) * self.speed
    IN update_led_states(
           [self EXCEPT !.race_time = race_time,
                        !.current_index =
                            AdvanceIndex(self.run_race_data, self.current_index,
                                         race_time)],
           order)

\* PlotApp::update_race at instant t
update_race(self, t, order) ==
    IF self.race_started
    THEN LET race_time == (t - self.start_time) * self.speed
         IN update_led_states(
                [self EXCEPT !.race_time = race_time,
                             !.current_index =
                                 AdvanceIndex(self.run_race_data, self.current_index,
                                              race_time)],
                order)
    ELSE self

\* the index expressions the while loop evaluates from next_index on are in
\* range (an index out of range panics): run_race_data[next_index] and
\* run_race_data[0], both evaluated only after the test of the loop
RECURSIVE IndexesInRange(_, _, _)
IndexesInRange(run_race_data, next_index, race_time) ==
    IF next_index < Len(run_race_data)
    THEN /\ next_index < Len(run_race_data)
         /\ 0 < Len(run_race_data)
         /\ Due(run_race_data[next_index + 1].date - run_race_data[1].date, race_time)
                => IndexesInRange(run_race_data, next_index + 1, race_time)
    ELSE TRUE

\* update_race as it would index if run_race_data[0].date were read once,
\* ahead of the loop
update_race_in_range_hoisted(self, t) ==
    self.race_started =>
        /\ 0 < Len(self.run_race_data)
        /\ IndexesInRange(self.run_race_data, self.current_index,
                          (t - self.start_time) * self.speed)

\* update_race at instant t panics nowhere: the indexes of the loop and the
\* slice [..current_index] of update_led_states are in range
update_race_in_range(self, t) ==
    self.race_started =>
        LET race_time == (t - self.start_time) * self.speed
        IN /\ IndexesInRange(self.run_race_data, self.current_index, race_time)
           /\ AdvanceIndex(self.run_race_data, self.current_index, race_time)
                  <= Len(self.run_race_data)

\* the orders in which a HashMap keyed by driver numbers can iterate
RECURSIVE Perms(_)
Perms(S) ==
    IF S = {} THEN {<<>>}
    ELSE UNION {{<<x>> \o p : p \in Perms(S \ {x})} : x \in S}

IterationOrders == Perms(Drivers)

----------------------------------------------------------------------------
(* Inputs *)

\* what the user can do in one frame: nothing, click START, click STOP, or
\* drag the speed slider to a value
Inputs ==
    {<<"NONE", 0>>, <<"START", 0>>, <<"STOP", 0>>}
        \cup {<<"SPEED", s>> : s \in 1..MaxSpeed}

\* the telemetry the API serves for a driver: two samples (for driver 1 one
\* second apart); the raw points lie on an LED, near an LED and halfway
\* between two LEDs
TelemetryOf(driver_number) ==
    IF driver_number = 1
    THEN << LocationData(1257, 884, 0, 1), LocationData(1400, 30, 2, 1) >>
    ELSE << LocationData(1295, 669, 1, driver_number),
            LocationData(1400, 30, 2, driver_number) >>

\* the body of the response to the location request of a driver
StreamOf(driver_number) == ArrayBytes(TelemetryOf(driver_number))

\* the RunRace values a caller can hand to visualize_data: the mapped
\* telemetry of the drivers
RunRaceSamples ==
    UNION { LET mapped == generate_run_race_data(TelemetryOf(d), coordinates)
            IN {mapped[k] : k \in 1..Len(mapped)} : d \in Drivers }

\* non-empty batches of at most two RunRace values
Batches ==
    {<<e>> : e \in RunRaceSamples}
        \cup {<<e, f>> : e \in RunRaceSamples, f \in RunRaceSamples}

\* the k-th record of an array given to the decoder: dates 1, 2, 3, ...
RawPointSeq == << <<1257, 884>>, <<1400, 30>>, <<1295, 669>> >>
DecRecord(k) ==
    LET p == RawPointSeq[(k % Len(RawPointSeq)) + 1]
    IN LocationData(p[1], p[2], k, 1)
DecRecords(n) == [k \in 1..n |-> DecRecord(k)]

\* the points given to the mapper, as raw positions and as LedCoordinates
GridPoints == {<<x, y>> : x \in 0..MaxGrid, y \in 0..1}

\* the sequences of n different elements of S
RECURSIVE Arrangements(_, _)
Arrangements(S, n) ==
    IF n = 0 THEN {<<>>}
    ELSE UNION {{<<x>> \o a : a \in Arrangements(S \ {x}, n - 1)} : x \in S}

\* the non-empty fixed sets given to the mapper, each in a defined order
FixedSets ==
    UNION {{[i \in 1..n |-> [x_led |-> a[i][1], y_led |-> a[i][2]]] :
               a \in Arrangements(GridPoints, n)} : n \in 1..MaxFixed}

\* the slices of raw records given to the mapper: one record, or two
RawSlices ==
    {<<LocationData(p[1], p[2], 0, 1)>> : p \in GridPoints}
        \cup {<<LocationData(p[1], p[2], 0, 1), LocationData(q[1], q[2], 1, 1)>> :
                  p \in GridPoints, q \in GridPoints}

----------------------------------------------------------------------------
(* State *)

NoTask == [pc |-> "none", pos |-> 0, buffer |-> <<>>, app_clone |-> PlotApp_new(0)]

\* a decoder: the response body and its number of records, the bytes
\* delivered so far, process_chunk's buffer, the rows returned so far and the
\* number of calls; with track set, adjacent is the set of records next to
\* which a chunk ended so far
\* invalid is the index of the object of the body that is no LocationData
\* (0: there is none); pc is the place of the task that reads the stream:
\* in its loop ("stream"), returned Ok ("done") or returned Err ("failed")
NoDec == [bytes |-> <<>>, n |-> 0, pos |-> 0, buffer |-> <<>>, emitted |-> <<>>,
          calls |-> 0, track |-> FALSE, adjacent |-> {}, invalid |-> 0,
          pc |-> "stream"]

NoMapper == [raw_data |-> <<>>, coordinates |-> <<>>, result |-> <<>>,
             returned |-> FALSE]

InitProgram ==
    /\ now = 0
    /\ app = PlotApp_new(0)
    /\ loader = [pc |-> "none", app |-> PlotApp_new(0)]
    /\ tasks = [d \in Drivers |-> NoTask]
    /\ channel = 0

\* the program after main() built the PlotApp and eframe took it over
Init == InitProgram /\ dec = NoDec /\ mapper = NoMapper

\* a decoder about to receive the bytes of a well-formed array of n records
InitDecoder ==
    /\ InitProgram
    /\ \E n \in 0..MaxRecords :
           dec = [NoDec EXCEPT !.bytes = ArrayBytes(DecRecords(n)), !.n = n]
    /\ mapper = NoMapper

\* a decoder about to receive a well-formed array of 1..MaxCutRecords
\* records, with the places where the chunks end kept on record
InitBoundary ==
    /\ InitProgram
    /\ \E n \in 1..MaxCutRecords :
           dec = [NoDec EXCEPT !.bytes = ArrayBytes(DecRecords(n)), !.n = n,
                               !.track = TRUE]
    /\ mapper = NoMapper

\* a decoder about to receive an array of 3..MaxInvalidRecords objects of
\* which one, not the last, is schema-invalid
InitInvalid ==
    /\ InitProgram
    /\ \E n \in 3..MaxInvalidRecords, bad \in 1..MaxInvalidRecords,
          kind \in {"missing field", "wrong type"} :
           /\ bad < n
           /\ dec = [NoDec EXCEPT
                  !.bytes = ArrayBytesWithInvalid(DecRecords(n), bad, kind),
                  !.n = n, !.invalid = bad]
    /\ mapper = NoMapper

\* the records 1..n of which the one at index zero has the raw position (0, 0)
RecordsWithZero(n, zero) ==
    [k \in 1..n |-> IF k = zero THEN LocationData(0, 0, k, 1) ELSE DecRecord(k)]

\* a decoder about to receive a well-formed array of 2..MaxSensorRecords
\* records of which one, not the last, has the raw position (0, 0)
InitSensor ==
    /\ InitProgram
    /\ \E n \in 2..MaxSensorRecords, zero \in 1..MaxSensorRecords :
           /\ zero < n
           /\ dec = [NoDec EXCEPT !.bytes = ArrayBytes(RecordsWithZero(n, zero)),
                                  !.n = n]
    /\ mapper = NoMapper

\* a task about to read a finite stream: a well-formed array of
\* 1..MaxInvalidRecords records, or an array with an invalid object
InitTaskLoop ==
    \/ InitInvalid
    \/ /\ InitProgram
       /\ \E n \in 1..MaxInvalidRecords :
              dec = [NoDec EXCEPT !.bytes = ArrayBytes(DecRecords(n)), !.n = n]
       /\ mapper = NoMapper

\* generate_run_race_data about to be called with a slice and a fixed set
InitMapper ==
    /\ InitProgram
    /\ dec = NoDec
    /\ \E raw_data \in RawSlices, coords \in FixedSets :
           mapper = [NoMapper EXCEPT !.raw_data = raw_data, !.coordinates = coords]

----------------------------------------------------------------------------
(* The wall clock *)

Tick ==
    /\ now < MaxNow
    /\ now' = now + 1
    /\ UNCHANGED <<app, loader, tasks, channel, dec, mapper>>

----------------------------------------------------------------------------
(* App::update, one frame *)

\* the START button: only the first click does anything
ClickStart(self, t) ==
    IF ~self.data_loading_started
    THEN [self EXCEPT !.data_loading_started = TRUE,
                      !.race_started = TRUE,
                      !.start_time = t]
    ELSE self

\* the frame as it would be if the slider also took the zero-point anew
FrameApp_speed_restarts(self, input, t, order) ==
    LET raced == update_race(self, t, order)
    IN CASE input[1] = "START" -> ClickStart(raced, t)
         [] input[1] = "STOP"  -> reset(raced, t)
         [] input[1] = "SPEED" -> [raced EXCEPT !.speed = input[2], !.start_time = t]
         [] OTHER              -> raced

\* the frame's effect on the PlotApp: update_race, then the widgets
FrameApp(self, input, t, order) ==
    LET raced == update_race(self, t, order)
    IN CASE input[1] = "START" -> ClickStart(raced, t)
         [] input[1] = "STOP"  -> reset(raced, t)
         [] input[1] = "SPEED" -> [raced EXCEPT !.speed = input[2]]
         [] OTHER              -> raced

\* the frame as it would be if STOP aborted the tasks load_data spawned
Update_stop_aborts(input, order) ==
    /\ app' = FrameApp(app, input, now, order)
    /\ channel' = IF channel > 0 THEN channel - 1 ELSE channel
    /\ loader' = IF input[1] = "START" /\ ~app.data_loading_started
                 THEN [pc |-> "spawn", app |-> app']
                 ELSE loader
    /\ tasks' = IF input[1] = "STOP"
                THEN [d \in Drivers |->
                         IF tasks[d].pc \in {"fetch", "stream"}
                         THEN [tasks[d] EXCEPT !.pc = "failed"] ELSE tasks[d]]
                ELSE tasks
    /\ UNCHANGED <<now, dec, mapper>>

Update(input, order) ==
    /\ app' = FrameApp(app, input, now, order)
    \* receiver.try_recv() takes a message when there is one
    /\ channel' = IF channel > 0 THEN channel - 1 ELSE channel
    \* tokio::spawn(app_clone.load_data()) with the clone taken after the flags
    /\ loader' = IF input[1] = "START" /\ ~app.data_loading_started
                 THEN [pc |-> "spawn", app |-> app']
                 ELSE loader
    /\ UNCHANGED <<now, tasks, dec, mapper>>

Frame == \E input \in Inputs, order \in IterationOrders : Update(input, order)

----------------------------------------------------------------------------
(* load_data and its per-driver tasks *)

\* the for loop: one task per driver, each with a clone of load_data's self
LoadSpawn ==
    /\ loader.pc = "spawn"
    /\ tasks' = [d \in Drivers |->
                    [pc |-> "fetch", pos |-> 0, buffer |-> <<>>,
                     app_clone |-> loader.app]]
    /\ loader' = [loader EXCEPT !.pc = "join"]
    /\ UNCHANGED <<now, app, channel, dec, mapper>>

\* fetch_data_in_chunks(...).await?
TaskFetch(d) ==
    /\ tasks[d].pc = "fetch"
    /\ \E ok \in BOOLEAN :
           tasks' = [tasks EXCEPT ![d].pc = IF ok THEN "stream" ELSE "failed"]
    /\ UNCHANGED <<now, app, loader, channel, dec, mapper>>

\* the turn of the loop as it would be if the task called visualize_data on
\* the PlotApp of the GUI as well
TaskChunk_shared(d, len, order) ==
    /\ tasks[d].pc = "stream"
    /\ tasks[d].pos < Len(StreamOf(d))
    /\ LET upto  == Min(tasks[d].pos + len, Len(StreamOf(d)))
           chunk == Slice(StreamOf(d), tasks[d].pos, upto)
           done  == process_chunk(chunk, tasks[d].buffer, coordinates,
                                  max_rows_per_driver)
       IN /\ tasks' = [tasks EXCEPT
                 ![d].pos = upto,
                 ![d].buffer = done.buffer,
                 ![d].app_clone = visualize_data(@, done.run_race_data, order),
                 ![d].pc = IF Len(done.buffer) >= max_rows_per_driver
                           THEN "done" ELSE "stream"]
          /\ app' = visualize_data(app, done.run_race_data, order)
    /\ UNCHANGED <<now, loader, channel, dec, mapper>>

\* one turn of the while-let loop with Some(Ok(chunk)): process_chunk,
\* visualize_data on the task's clone, then the size test
TaskChunk(d, len, order) ==
    /\ tasks[d].pc = "stream"
    /\ tasks[d].pos < Len(StreamOf(d))
    /\ LET upto  == Min(tasks[d].pos + len, Len(StreamOf(d)))
           chunk == Slice(StreamOf(d), tasks[d].pos, upto)
           done  == process_chunk(chunk, tasks[d].buffer, coordinates,
                                  max_rows_per_driver)
       IN tasks' = [tasks EXCEPT
              ![d].pos = upto,
              ![d].buffer = done.buffer,
              ![d].app_clone = visualize_data(@, done.run_race_data, order),
              ![d].pc = IF Len(done.buffer) >= max_rows_per_driver
                        THEN "done" ELSE "stream"]
    /\ UNCHANGED <<now, app, loader, channel, dec, mapper>>

\* the transport error as it would act if it took the other tasks down too
TaskChunkErr_abort_all(d) ==
    /\ tasks[d].pc = "stream"
    /\ tasks[d].pos < Len(StreamOf(d))
    /\ tasks' = [e \in Drivers |-> [tasks[e] EXCEPT !.pc = "failed"]]
    /\ UNCHANGED <<now, app, loader, channel, dec, mapper>>

\* Some(Err(e)): chunk? ends the task with the error
TaskChunkErr(d) ==
    /\ tasks[d].pc = "stream"
    /\ tasks[d].pos < Len(StreamOf(d))
    /\ tasks' = [tasks EXCEPT ![d].pc = "failed"]
    /\ UNCHANGED <<now, app, loader, channel, dec, mapper>>

\* None: the stream is exhausted
TaskEnd(d) ==
    /\ tasks[d].pc = "stream"
    /\ tasks[d].pos = Len(StreamOf(d))
    /\ tasks' = [tasks EXCEPT ![d].pc = "done"]
    /\ UNCHANGED <<now, app, loader, channel, dec, mapper>>

TasksOver == \A d \in Drivers : tasks[d].pc \in {"done", "failed"}

\* join_all returned: data_loaded is set on load_data's self
LoadJoin ==
    /\ loader.pc = "join"
    /\ TasksOver
    /\ loader' = [loader EXCEPT !.pc = "send", !.app.data_loaded = TRUE]
    /\ UNCHANGED <<now, app, tasks, channel, dec, mapper>>

\* sender.send(()).await inside load_data; the channel holds one message
LoadSend ==
    /\ loader.pc = "send"
    /\ channel < 1
    /\ channel' = channel + 1
    /\ loader' = [loader EXCEPT !.pc = "notify"]
    /\ UNCHANGED <<now, app, tasks, dec, mapper>>

\* sender.send(()).await of the spawned closure, after load_data returned
LoadNotify ==
    /\ loader.pc = "notify"
    /\ channel < 1
    /\ channel' = channel + 1
    /\ loader' = [loader EXCEPT !.pc = "done"]
    /\ UNCHANGED <<now, app, tasks, dec, mapper>>

\* the sizes in which the transport delivers a response: a chunk has one of
\* these lengths, or is the rest of the body when that is shorter
ChunkLens == {4, 7}

Next ==
    \/ Tick
    \/ Frame
    \/ LoadSpawn
    \/ \E d \in Drivers : TaskFetch(d)
    \/ \E d \in Drivers, len \in ChunkLens, order \in IterationOrders :
           TaskChunk(d, len, order)
    \/ \E d \in Drivers : TaskChunkErr(d)
    \/ \E d \in Drivers : TaskEnd(d)
    \/ LoadJoin
    \/ LoadSend
    \/ LoadNotify

\* the program: the frames of the GUI, the clock and the ingestion tasks
Spec == Init /\ [][Next]_vars

----------------------------------------------------------------------------
(* A PlotApp under calls of its methods: the frames (update_race and the   *)
(* buttons) and visualize_data with batches of RunRace, on one instance    *)

AppVisualize(data, order) ==
    /\ Len(app.run_race_data) + Len(data) <= MaxTimeline
    /\ app' = visualize_data(app, data, order)
    /\ UNCHANGED <<now, loader, tasks, channel, dec, mapper>>

NextApp ==
    \/ Tick
    \/ Frame
    \/ \E data \in Batches, order \in IterationOrders : AppVisualize(data, order)

SpecApp == Init /\ [][NextApp]_vars

----------------------------------------------------------------------------
(* process_chunk fed with the fragments of one array, call after call *)

\* In ArrayBytes of n records, '[' is at offset 0, record k has its '{' at
\* offset 6k - 5 and its '}' at offset 6k - 1, and ']' is at offset 6n.  A
\* chunk that ends at offset c (the next chunk starts there) ends right
\* before the first '{' (c = 1: record 1), right after the last '}'
\* (c = 6n: record n), or before, inside or after the marker between
\* records k and k + 1 (c in 6k - 1 .. 6k + 2: records k and k + 1).
AdjacentRecords(c, n) ==
    (IF c = 1 THEN {1} ELSE {})
        \cup (IF c = 6 * n THEN {n} ELSE {})
        \cup UNION {{k, k + 1} : k \in {j \in 1..(n - 1) : c \in (6 * j - 1)..(6 * j + 2)}}

DecFeed(len) ==
    /\ dec.pos + len <= Len(dec.bytes)
    /\ LET chunk == Slice(dec.bytes, dec.pos, dec.pos + len)
           done  == process_chunk(chunk, dec.buffer, coordinates, max_rows_per_driver)
       IN dec' = [dec EXCEPT !.pos = @ + len,
                             !.buffer = done.buffer,
                             !.emitted = @ \o done.run_race_data,
                             !.calls = @ + 1,
                             !.adjacent = IF dec.track
                                          THEN @ \cup AdjacentRecords(dec.pos + len, dec.n)
                                          ELSE @]
    /\ UNCHANGED <<now, app, loader, tasks, channel, mapper>>

NextDecoder == \E len \in 1..(5 * MaxRecords + MaxRecords + 1) : DecFeed(len)

SpecDecoder == InitDecoder /\ [][NextDecoder]_vars

\* the same, with the chunk boundaries on record
SpecBoundary == InitBoundary /\ [][NextDecoder]_vars

\* the same, for a body with a schema-invalid object
SpecInvalid == InitInvalid /\ [][NextDecoder]_vars

\* the same, for a body with a record at the raw position (0, 0)
SpecSensor == InitSensor /\ [][NextDecoder]_vars

----------------------------------------------------------------------------
(* The loop of a driver's task over one stream: the turns of while let     *)
(* Some(chunk) = stream.next().await with process_chunk and the size test; *)
(* the rows go to visualize_data on the task's PlotApp, which has no part  *)
(* in the control of the loop                                              *)

\* the turn of the loop as it would be without the test of buffer.len()
TaskLoopChunk_no_break(len) ==
    /\ dec.pc = "stream"
    /\ dec.pos < Len(dec.bytes)
    /\ LET upto  == Min(dec.pos + len, Len(dec.bytes))
           chunk == Slice(dec.bytes, dec.pos, upto)
           done  == process_chunk(chunk, dec.buffer, coordinates, max_rows_per_driver)
       IN dec' = [dec EXCEPT !.pos = upto,
                             !.buffer = done.buffer,
                             !.emitted = @ \o done.run_race_data,
                             !.calls = @ + 1]
    /\ UNCHANGED <<now, app, loader, tasks, channel, mapper>>

\* Some(Ok(chunk)): process_chunk, then break when the pending buffer has
\* max_rows_per_driver bytes or more
TaskLoopChunk(len) ==
    /\ dec.pc = "stream"
    /\ dec.pos < Len(dec.bytes)
    /\ LET upto  == Min(dec.pos + len, Len(dec.bytes))
           chunk == Slice(dec.bytes, dec.pos, upto)
           done  == process_chunk(chunk, dec.buffer, coordinates, max_rows_per_driver)
       IN dec' = [dec EXCEPT !.pos = upto,
                             !.buffer = done.buffer,
                             !.emitted = @ \o done.run_race_data,
                             !.calls = @ + 1,
                             !.pc = IF Len(done.buffer) >= max_rows_per_driver
                                    THEN "done" ELSE "stream"]
    /\ UNCHANGED <<now, app, loader, tasks, channel, mapper>>

\* Some(Err(e)): chunk? returns the error
TaskLoopErr ==
    /\ dec.pc = "stream"
    /\ dec.pos < Len(dec.bytes)
    /\ dec' = [dec EXCEPT !.pc = "failed"]
    /\ UNCHANGED <<now, app, loader, tasks, channel, mapper>>

\* None: the stream is exhausted, the task returns Ok(())
TaskLoopEnd ==
    /\ dec.pc = "stream"
    /\ dec.pos = Len(dec.bytes)
    /\ dec' = [dec EXCEPT !.pc = "done"]
    /\ UNCHANGED <<now, app, loader, tasks, channel, mapper>>

NextTaskLoop ==
    \/ \E len \in 1..(MaxInvalidRecords + 1) : TaskLoopChunk(len)
    \/ TaskLoopErr
    \/ TaskLoopEnd

\* the runtime polls a task that can go on, and a finite stream yields its
\* chunks and then None: weak fairness of the turn that gets a chunk, which
\* is enabled exactly when the loop runs and bytes are left and is the only
\* step that advances dec.pos, and weak fairness of the turn that gets None;
\* a transport error is the network's choice and has no fairness
SpecTaskLoop ==
    /\ InitTaskLoop
    /\ [][NextTaskLoop]_vars
    /\ \/ []<>(~(dec.pc = "stream" /\ dec.pos < Len(dec.bytes)))
       \/ []<><<dec'.pos > dec.pos>>_vars
    /\ WF_vars(TaskLoopEnd)

----------------------------------------------------------------------------
(* generate_run_race_data called once on a slice of raw records *)

MapperCall ==
    /\ ~mapper.returned
    /\ mapper' = [mapper EXCEPT
           !.result = generate_run_race_data(mapper.raw_data, mapper.coordinates),
           !.returned = TRUE]
    /\ UNCHANGED <<now, app, loader, tasks, channel, dec>>

NextMapper == MapperCall

SpecMapper == InitMapper /\ [][NextMapper]_vars

----------------------------------------------------------------------------
(* Claims *)

\* what process_chunk emits for the whole array in one call
OneCall(bytes) ==
    process_chunk(bytes, <<>>, coordinates, max_rows_per_driver).run_race_data

AllFed == dec.calls >= 1 /\ dec.pos = Len(dec.bytes)

\* C1 (as claimed): once every fragment of a well-formed array has been fed,
\* in whatever partition, the records emitted over all the calls are exactly
\* the records a single call on the whole byte sequence emits, in that order.
C1_SplitInvariance == AllFed => dec.emitted = OneCall(dec.bytes)

\* C2 (as claimed): once every fragment of a well-formed array of N >= 1
\* records has been fed, each of the N records has been emitted exactly once,
\* in order, the last one included, and the pending buffer is empty.
C2_Completeness ==
    (AllFed /\ dec.n >= 1) =>
        /\ dec.emitted = generate_run_race_data(DecRecords(dec.n), coordinates)
        /\ dec.buffer = <<>>

\* after is what update_race makes of a Running before at the current instant
TickOf(before, after) ==
    /\ before.race_started
    /\ \E order \in IterationOrders : after = update_race(before, now, order)

\* the two mapped events of the scenario: driver 1 at 0 s and at 1 s, on two
\* different LEDs
EventAt0 == generate_run_race_data(TelemetryOf(1), coordinates)[1]
EventAt1s == generate_run_race_data(TelemetryOf(1), coordinates)[2]

ScenarioTimeline ==
    /\ Len(app.run_race_data) = 2
    /\ {app.run_race_data[1], app.run_race_data[2]} = {EventAt0, EventAt1s}

\* C3 (as claimed): with a timeline of one driver's events at 0 s and 1 s on
\* two different LEDs, a tick at race_time 0.5 s gives cursor 1 and only the
\* first LED lit, and a tick at race_time 1 s gives cursor 2 and only the
\* second LED lit: the driver is shown where it was as of the race time.
C3_PlaybackPosition ==
    [][(ScenarioTimeline /\ TickOf(app, app')) =>
          /\ app'.race_time = 1 =>
                 /\ app'.current_index = 1
                 /\ app'.led_states = (coord_key(EventAt0) :> ColorOf(1))
          /\ app'.race_time = 2 =>
                 /\ app'.current_index = 2
                 /\ app'.led_states = (coord_key(EventAt1s) :> ColorOf(1))]_vars

\* the events a sequence holds
EventsOf(run_race_data) == {run_race_data[i] : i \in 1..Len(run_race_data)}

\* C4 (as claimed): every event an ingestion task decoded and appended is,
\* at the latest when all the tasks have ended, in the timeline of the
\* PlotApp whose update_race drives the playback.
C4_SharedTimeline ==
    TasksOver =>
        \A d \in Drivers :
            EventsOf(tasks[d].app_clone.run_race_data) \subseteq EventsOf(app.run_race_data)

Ascending(run_race_data) ==
    \A i, j \in 1..Len(run_race_data) :
        i < j => run_race_data[i].date <= run_race_data[j].date

\* C5 (as claimed): after every append, and so whenever the race clock
\* reads it, the timeline is sorted by date ascending.
C5_TimelineOrder == Ascending(app.run_race_data)

\* C6 (as claimed): whenever the clock is Idle, initially or after a
\* Stop/Reset, a frame with a START click leaves it Running, with the current
\* instant as the zero-point and cursor 0.
C6_StartFromIdle ==
    ~app.race_started =>
        \A order \in IterationOrders :
            LET a == FrameApp(app, <<"START", 0>>, now, order)
            IN /\ a.race_started
               /\ a.start_time = now
               /\ a.current_index = 0

PlaybackState(self) ==
    <<self.race_time, self.current_index, self.last_positions, self.led_states>>

\* the PlaybackState of a clock that never ran or was reset
ClearedPlayback == <<0, 0, EmptyMap, EmptyMap>>

\* C7: a frame with a STOP click leaves the clock Idle with cursor 0,
\* race_time 0 and empty last_positions and led_states, whatever the state
\* it is issued in; every Idle state has that PlaybackState, so that a STOP
\* issued when Idle leaves PlaybackState unchanged.
C7_StopResets ==
    /\ ~app.race_started => PlaybackState(app) = ClearedPlayback
    /\ \A order \in IterationOrders :
           LET a == FrameApp(app, <<"STOP", 0>>, now, order)
           IN /\ ~a.race_started
              /\ PlaybackState(a) = ClearedPlayback
              /\ ~app.race_started => PlaybackState(a) = PlaybackState(app)

\* the clock is Idle again: START was clicked, and a STOP was handled at the
\* last instant, with a timeline of two events in place
C7_Witness ==
    /\ ~app.race_started
    /\ app.data_loading_started
    /\ Len(app.run_race_data) >= 2
    /\ app.start_time = MaxNow

\* C8: the cursor never exceeds the length of the timeline; a step in which
\* it decreases is a frame with a STOP click and brings it to 0; ticks,
\* appends and speed changes never decrease it.
C8_MonotonicCursor ==
    /\ [](app.current_index <= Len(app.run_race_data))
    /\ [][app'.current_index < app.current_index =>
             /\ app'.current_index = 0
             /\ \E order \in IterationOrders :
                    app' = FrameApp(app, <<"STOP", 0>>, now, order)]_vars

\* the cursor has advanced twice, with an append in between, at two speeds
C8_Witness ==
    /\ app.race_started
    /\ app.current_index = 2
    /\ app.speed = 2
    /\ app.race_time = 2 * MaxNow

\* C9: in every state a Running clock can be in, whatever was appended and
\* whatever speeds were set before, the tick leaves cursor equal to the
\* number of timeline events whose date minus the date of the first timeline
\* event is at most race_time.
C9_CursorMeaning ==
    app.race_started =>
        \A order \in IterationOrders :
            LET a == update_race(app, now, order)
            IN a.current_index =
                   Cardinality({i \in 1..Len(a.run_race_data) :
                       a.run_race_data[i].date - a.run_race_data[1].date
                           <= a.race_time})

\* a Running clock that has ticked over a timeline of two dates
C9_Witness ==
    /\ app.race_started
    /\ app.race_time > 0
    /\ app.current_index = 2
    /\ app.run_race_data[1].date # app.run_race_data[2].date

\* the last event of driver d in the first n events
LastOf(run_race_data, n, d) ==
    LET mine == {i \in 1..n : run_race_data[i].driver_number = d}
    IN CHOOSE i \in mine : \A j \in mine : j <= i

\* C10 (as claimed): when the last due events of two different drivers A and
\* B lie on the same LED and A's is earlier in the timeline than B's, the
\* tick leaves that LED with B's colour, on every run.
C10_LastWriteWins ==
    [][TickOf(app, app') =>
          LET due == SubSeq(app'.run_race_data, 1, app'.current_index)
          IN \A A, B \in {due[i].driver_number : i \in 1..Len(due)} :
                 LET ia == LastOf(due, Len(due), A)
                     ib == LastOf(due, Len(due), B)
                 IN (A # B /\ ia < ib /\ coord_key(due[ia]) = coord_key(due[ib])) =>
                        app'.led_states[coord_key(due[ib])] = ColorOf(B)]_vars

\* the values a map holds
ValuesOf(map) == {map[k] : k \in DOMAIN map}

\* C11: in every state a Running clock can be in, the tick leaves, for each
\* driver with an event in the first cursor events of the timeline,
\* last_positions at the LED of that driver's last event of that prefix (in
\* timeline order); every LED in led_states is the last position of some
\* driver; and an LED a driver has in the prefix only through an earlier
\* event is lit only if it is the last position of another driver.
C11_ReplaceNotAccumulate ==
    app.race_started =>
        \A order \in IterationOrders :
            LET a   == update_race(app, now, order)
                due == SubSeq(a.run_race_data, 1, a.current_index)
                in_prefix == {due[i].driver_number : i \in 1..Len(due)}
            IN /\ \A e \in in_prefix :
                      /\ e \in DOMAIN a.last_positions
                      /\ a.last_positions[e] = coord_key(due[LastOf(due, Len(due), e)])
               /\ DOMAIN a.led_states \subseteq ValuesOf(a.last_positions)
               /\ \A i \in 1..Len(due) :
                      LET e == due[i].driver_number
                          c == coord_key(due[i])
                      IN (c # a.last_positions[e] /\ c \in DOMAIN a.led_states) =>
                             \E f \in DOMAIN a.last_positions :
                                 f # e /\ a.last_positions[f] = c

\* after a tick, driver 1 has two events on two LEDs in the prefix and only
\* the LED of the later one in timeline order is lit
C11_Witness ==
    /\ app.race_started
    /\ app.race_time > 0
    /\ app.current_index = 2
    /\ app.run_race_data = <<EventAt1s, EventAt0>>
    /\ app.last_positions = (1 :> coord_key(EventAt0))
    /\ DOMAIN app.led_states = {coord_key(EventAt0)}

\* C12: for every raw (x, y) and every non-empty ordered fixed set, the
\* RunRace that generate_run_race_data returns has the coordinates of the
\* first element, in the set's order, among those at minimal Euclidean
\* distance; so a raw point that is a fixed coordinate maps to it, and a
\* raw point equally far from two fixed coordinates maps to the earlier one.
C12_NearestNeighbour ==
    mapper.returned =>
        /\ Len(mapper.result) = Len(mapper.raw_data)
        /\ \A k \in 1..Len(mapper.raw_data) :
               LET data    == mapper.raw_data[k]
                   coords  == mapper.coordinates
                   minimal == {i \in 1..Len(coords) :
                                  \A j \in 1..Len(coords) :
                                      Dist2(data, coords[i]) <= Dist2(data, coords[j])}
                   first   == CHOOSE i \in minimal : \A j \in minimal : i <= j
                   got     == mapper.result[k]
               IN /\ got.x_led = coords[first].x_led
                  /\ got.y_led = coords[first].y_led
                  /\ \A i \in 1..Len(coords) :
                         (coords[i].x_led = data.x /\ coords[i].y_led = data.y) =>
                             (got.x_led = data.x /\ got.y_led = data.y)
                  /\ \A i, j \in 1..Len(coords) :
                         (i < j /\ i \in minimal /\ j \in minimal) =>
                             ~(got.x_led = coords[j].x_led /\ got.y_led = coords[j].y_led)

\* the mapper returned for a raw point halfway between the first two fixed
\* coordinates, with a third one farther away: the first one is the result
C12_Witness ==
    /\ mapper.returned
    /\ Len(mapper.coordinates) = 3
    /\ mapper.raw_data = <<LocationData(1, 0, 0, 1)>>
    /\ mapper.coordinates[1] = [x_led |-> 2, y_led |-> 0]
    /\ mapper.coordinates[2] = [x_led |-> 0, y_led |-> 0]
    /\ mapper.result[1].x_led = 2

\* how often the k-th record of the array (the one of date k) was emitted
TimesEmitted(k) == Cardinality({i \in 1..Len(dec.emitted) : dec.emitted[i].date = k})

\* C13 (as claimed): once every fragment has been fed, each record next to
\* which a fragment ended (on the marker "},{": before it, after it or
\* between its bytes; right before the first '{'; right after the last '}')
\* has been emitted exactly once.
C13_BoundaryRobustness ==
    AllFed => \A k \in dec.adjacent : TimesEmitted(k) = 1

\* C14 (as claimed): when a complete object between markers is no valid
\* LocationData, the decoder goes on with the next boundary: once every
\* fragment has been fed, every well-formed record behind the invalid
\* object has been emitted.
C14_InvalidRecordSkipped ==
    (AllFed /\ dec.invalid > 0) =>
        \A k \in (dec.invalid + 1)..dec.n : TimesEmitted(k) >= 1

\* the step ends the task of driver d with an error
Fails(d) == tasks[d].pc \in {"fetch", "stream"} /\ tasks'[d].pc = "failed"

\* C15: a step in which the task of one driver ends with an error (the fetch
\* fails or the stream yields a transport error) changes nothing else: the
\* tasks of the other drivers keep their place in their streams, their
\* buffers and their being open, the events every clone holds are as
\* before, and so are the GUI's PlotApp, load_data and the channel; the
\* step ends neither load_data nor any other task.
C15_FailureIsolation ==
    [][\A d \in Drivers :
          Fails(d) =>
              /\ \A e \in Drivers \ {d} : tasks'[e] = tasks[e]
              /\ tasks'[d].app_clone = tasks[d].app_clone
              /\ app' = app /\ loader' = loader /\ channel' = channel]_vars

\* the stream of driver 1 broke after a chunk; the task of driver 4 read its
\* stream to the end and decoded a record, and load_data ran to its end
C15_Witness ==
    /\ tasks[1].pc = "failed"
    /\ tasks[1].pos > 0
    /\ tasks[4].pc = "done"
    /\ tasks[4].pos = Len(StreamOf(4))
    /\ Len(tasks[4].app_clone.run_race_data) >= 1
    /\ loader.pc = "done"

\* ingestion has been reported complete: load_data set data_loaded, or a
\* completion message was sent
ReportedComplete ==
    \/ loader.app.data_loaded
    \/ loader.pc \in {"notify", "done"}
    \/ channel > 0

\* the task of driver d read its stream to the end and holds no undecoded bytes
Exhausted(d) ==
    /\ tasks[d].pc = "done"
    /\ tasks[d].pos = Len(StreamOf(d))
    /\ tasks[d].buffer = <<>>

\* C16 (as claimed): ingestion is reported complete only when every driver's
\* task has reached the end of its stream with an empty decode buffer, never
\* while a task has unread fragments or retained undecoded bytes.
C16_CompletionSemantics == ReportedComplete => \A d \in Drivers : Exhausted(d)

\* the step is a frame whose STOP click took effect after START: the clock
\* goes from Running to Idle, or the zero-point is taken anew
StopTakesEffect ==
    /\ app.data_loading_started
    /\ \/ app.race_started /\ ~app'.race_started
       \/ app'.start_time # app.start_time

C18_AtomicAppend ==
    /\ [](app.run_race_data = sort_by_key(app.run_race_data))
    /\ [][app'.run_race_data # app.run_race_data =>
             \E data \in Batches :
                 app'.run_race_data = sort_by_key(app.run_race_data \o data)]_vars

\* two appends, of events of two drivers that arrive against the order of
\* the sort, with ticks of a Running clock that read the timeline
C18_Witness ==
    /\ app.race_started
    /\ app.race_time > 0
    /\ app.current_index = 2
    /\ Len(app.run_race_data) = 2
    /\ app.run_race_data[1].driver_number # app.run_race_data[2].driver_number
    /\ app.run_race_data[1].date > app.run_race_data[2].date

\* C19: in every state a Running clock can be in, a frame in which the
\* slider is set to s leaves the PlotApp as the frame's tick left it but
\* for speed: zero-point, cursor, last_positions and led_states are not
\* changed by the slider; and a tick at any later instant t gives
\* race_time = (t - zero-point) * s, with the zero-point as it was.
C19_SpeedChange ==
    app.race_started =>
        \A s \in 1..MaxSpeed, order \in IterationOrders :
            LET raced == update_race(app, now, order)
                a     == FrameApp(app, <<"SPEED", s>>, now, order)
            IN /\ a = [raced EXCEPT !.speed = s]
               /\ a.start_time = app.start_time
               /\ \A t \in now..MaxNow, later \in IterationOrders :
                      update_race(a, t, later).race_time = (t - app.start_time) * s

\* a clock started at instant 0 whose speed was changed while Running and
\* that has ticked since: at the last instant race_time is twice the time
C19_Witness ==
    /\ app.race_started
    /\ app.start_time = 0
    /\ now = MaxNow
    /\ app.speed = 2
    /\ app.race_time = 2 * MaxNow
    /\ Len(app.run_race_data) >= 1

\* C20: while the timeline is empty, cursor is 0 and led_states is empty,
\* and a tick of a Running clock, at whatever instant and speed, leaves
\* them so and indexes nothing out of range (it does not read
\* run_race_data[0]).
C20_EmptyTimeline ==
    app.run_race_data = <<>> =>
        /\ app.current_index = 0
        /\ app.led_states = EmptyMap
        /\ \A order \in IterationOrders :
               LET a == update_race(app, now, order)
               IN /\ update_race_in_range(app, now)
                  /\ a.current_index = 0
                  /\ a.led_states = EmptyMap
                  /\ a.run_race_data = <<>>

\* a Running clock that has ticked up to the last instant, at speed 2, with
\* nothing in the timeline
C20_Witness ==
    /\ app.race_started
    /\ app.run_race_data = <<>>
    /\ app.speed = 2
    /\ app.race_time = 2 * MaxNow
    /\ app.current_index = 0

\* the record of date k of the body has the raw position (0, 0)
RawIsZero(k) ==
    \E j \in 1..(Len(dec.bytes) - 2) :
        /\ dec.bytes[j] = FieldXY(0, 0)
        /\ dec.bytes[j + 2].c = "dd"
        /\ dec.bytes[j + 2].a = k

\* C22 (as claimed): a record whose raw position is exactly (0, 0) is never
\* handed to generate_run_race_data: no RunRace that process_chunk returns
\* derives from such a record.
C22_SensorInvalidExcluded ==
    \A i \in 1..Len(dec.emitted) : ~RawIsZero(dec.emitted[i].date)

\* the offset in the body of the '{' of its b-th object
BraceOffset(b) ==
    LET braces == {j \in 0..(Len(dec.bytes) - 1) : dec.bytes[j + 1] = LBrace}
    IN CHOOSE j \in braces : Cardinality({i \in braces : i <= j}) = b

\* the read offset at which the scan meets the invalid object: 0 when it is
\* the first object, else right behind the '{' that the marker in front of
\* it ends with
FailedSliceStart == IF dec.invalid = 1 THEN 0 ELSE BraceOffset(dec.invalid) + 1

\* the offset right behind the marker that follows the invalid object
FailedMarkerEnd == BraceOffset(dec.invalid + 1) + 1

\* C23: when the slice in front of a found marker fails to parse, the scan
\* of that call stops there: no record at or behind the failed slice is
\* returned by the call, the read offset stays in front of the failed
\* slice, and every byte from that offset on is retained as the pending
\* buffer; the call returns its rows all the same.
C23_ParseFailureHalts ==
    dec.invalid > 0 =>
        /\ \A i \in 1..Len(dec.emitted) : dec.emitted[i].date < dec.invalid
        /\ dec.pos >= FailedMarkerEnd =>
               dec.buffer = Slice(dec.bytes, FailedSliceStart, dec.pos)

\* the second object of three is invalid; the whole body has been fed in
\* several calls, of which one returned the first record and the later
\* ones stopped at the invalid object
C23_Witness ==
    /\ dec.invalid = 2
    /\ dec.calls >= 3
    /\ dec.pos = Len(dec.bytes)
    /\ Len(dec.emitted) = 1
    /\ Len(dec.buffer) > 3

\* how often the record of date k occurs in the rows emitted
TimesIn(emitted, k) == Cardinality({i \in 1..Len(emitted) : emitted[i].date = k})

\* C24: for a well-formed array in any fragmentation, a call that returns
\* fewer rows than the per-call cap leaves a pending buffer without a
\* complete marker "},{", and returns each record whose following marker
\* became complete in the buffer with the chunk of that call; so the first
\* record is returned as soon as the marker behind it has arrived, before
\* the rest of the array.
C24_IncrementalAvailability ==
    [][Len(dec'.emitted) - Len(dec.emitted) < max_rows_per_driver =>
          /\ FindMarker(dec'.buffer, 0) = -1
          /\ \A k \in 1..(dec.n - 1) :
                 (dec.pos < 6 * k + 2 /\ 6 * k + 2 <= dec'.pos) =>
                     /\ TimesIn(dec.emitted, k) = 0
                     /\ TimesIn(dec'.emitted, k) = 1]_vars

\* the first record of the longest array has been returned by the second
\* call, with which the marker behind it became complete, and nothing of the
\* rest of the array has arrived
C24_Witness ==
    /\ dec.n = MaxRecords
    /\ dec.calls = 2
    /\ dec.pos = 8
    /\ Len(dec.emitted) = 1
    /\ dec.emitted[1].date = 1
    /\ dec.buffer = <<>>

\* what ingestion may not change of a PlotApp: everything but the timeline
WithoutTimeline(self) == [self EXCEPT !.run_race_data = <<>>]

\* C25: a step of an ingestion task changes the cursor, last_positions and
\* led_states (and race_time) of no PlotApp, neither of the one the GUI
\* shows nor of the one the task appends to: of a PlotApp it changes the
\* timeline only, which it extends, never shortens; and a step in which
\* the PlaybackState of the GUI's PlotApp changes is a frame (its tick or
\* its STOP).
C25_SingleWriter ==
    /\ [][tasks' # tasks =>
             /\ app' = app
             /\ \A d \in Drivers :
                    tasks[d].pc # "none" =>
                        /\ WithoutTimeline(tasks'[d].app_clone)
                               = WithoutTimeline(tasks[d].app_clone)
                        /\ Len(tasks'[d].app_clone.run_race_data)
                               >= Len(tasks[d].app_clone.run_race_data)
                        /\ EventsOf(tasks[d].app_clone.run_race_data)
                               \subseteq EventsOf(tasks'[d].app_clone.run_race_data)]_vars
    /\ [][PlaybackState(app') # PlaybackState(app) =>
             \E input \in Inputs, order \in IterationOrders :
                 app' = FrameApp(app, input, now, order)]_vars

\* the task of driver 1 has appended an event to its PlotApp while the
\* clock of the GUI was Running and ticking; the PlaybackState of the
\* task's PlotApp is as it was when the task got it
C25_Witness ==
    /\ app.race_started
    /\ app.race_time > 0
    /\ Len(tasks[1].app_clone.run_race_data) >= 1
    /\ PlaybackState(tasks[1].app_clone) = ClearedPlayback
    /\ tasks[4].pc = "stream"

\* C26: for a well-formed array in any fragmentation, after every call the
\* rows returned so far are the mapped first records of the array, in the
\* order of the array: none out of order, none skipped, none twice.
C26_PrefixInvariant ==
    /\ Len(dec.emitted) <= dec.n
    /\ dec.emitted =
           SubSeq(generate_run_race_data(DecRecords(dec.n), coordinates),
                  1, Len(dec.emitted))

\* the longest array has been fed in four calls or more, and all its
\* records that have a marker behind them have been returned
C26_Witness ==
    /\ dec.n = MaxRecords
    /\ dec.calls >= 4
    /\ dec.pos = Len(dec.bytes)
    /\ Len(dec.emitted) = MaxRecords - 1

\* C27: data_loading_started, once set by the first START, is never cleared,
\* by no STOP either; load_data is spawned only by a START that finds it
\* unset, so it is spawned at most once over any sequence of START and STOP
\* clicks, the tasks of the drivers are spawned at most once, and the
\* stream of a driver is fetched at most once.
C27_SingleIngestionRun ==
    /\ [](app.data_loading_started <=> loader.pc # "none")
    /\ [][app.data_loading_started => app'.data_loading_started]_vars
    /\ [][loader'.pc = "spawn" => (loader.pc = "spawn" \/ ~app.data_loading_started)]_vars
    /\ [][loader.pc # "none" => loader'.pc # "none"]_vars
    /\ [][\A d \in Drivers :
             /\ tasks'[d].pc = "fetch" => tasks[d].pc \in {"none", "fetch"}
             /\ tasks[d].pc # "none" => tasks'[d].pc # "none"
             /\ tasks'[d].pos >= tasks[d].pos]_vars

\* START, then STOP at a later instant, and ingestion has run to its end;
\* the clock is Idle and a further START finds data_loading_started set
C27_Witness ==
    /\ app.data_loading_started
    /\ ~app.race_started
    /\ app.start_time = MaxNow
    /\ loader.pc = "done"
    /\ \A d \in Drivers : tasks[d].pc = "done"

\* C28: a task leaves its loop with the turn whose process_chunk call
\* leaves max_rows_per_driver bytes or more pending, whether or not the
\* stream has more fragments, and with no other turn that got a chunk;
\* else it leaves it only at the end of the stream or on a transport
\* error; having left it, it reads no more; and over a finite stream it
\* does leave it.
C28_EarlyTermination ==
    /\ [][dec'.pos > dec.pos =>
             /\ dec.pc = "stream"
             /\ dec'.pc = "done" <=> Len(dec'.buffer) >= max_rows_per_driver
             /\ dec'.pc \in {"done", "stream"}]_vars
    /\ [][(dec'.pc = "done" /\ dec'.pos = dec.pos) =>
             (dec.pc = "stream" /\ dec.pos = Len(dec.bytes))]_vars
    /\ [][dec.pc # "stream" => dec' = dec]_vars
    /\ <>(dec.pc # "stream")

\* the task has left its loop with fragments of its stream unread, on a
\* pending buffer of max_rows_per_driver bytes or more
C28_Witness ==
    /\ dec.pc = "done"
    /\ dec.pos < Len(dec.bytes)
    /\ Len(dec.buffer) >= max_rows_per_driver
    /\ dec.calls >= 2

\* C29: in every state an Idle clock can be in, a tick leaves race_time,
\* cursor, last_positions and led_states as they were, and the whole
\* PlotApp with them, whatever the timeline holds, whatever the speed is
\* and in whatever order the map iterates; a frame with no input is such a
\* tick, and a frame in which only the slider moves changes speed alone.
C29_IdleTicksNoOp ==
    ~app.race_started =>
        \A order \in IterationOrders :
            LET a == update_race(app, now, order)
            IN /\ a.race_time = app.race_time
               /\ a.current_index = app.current_index
               /\ a.last_positions = app.last_positions
               /\ a.led_states = app.led_states
               /\ a = app
               /\ FrameApp(app, <<"NONE", 0>>, now, order) = app
               /\ \A s \in 1..MaxSpeed :
                      FrameApp(app, <<"SPEED", s>>, now, order)
                          = [app EXCEPT !.speed = s]

\* an Idle clock, stopped at an earlier instant, with a timeline whose
\* first record is due at once and a speed other than 1: a Running clock
\* would show a race_time above 0 and move the cursor
C29_Witness ==
    /\ ~app.race_started
    /\ now > app.start_time
    /\ app.start_time > 0
    /\ Len(app.run_race_data) = MaxTimeline
    /\ app.speed = 2
    /\ app.race_time = 0
    /\ app.current_index = 0

====
